---- MODULE Spec2Model ----
(***************************************************************************)
(* The middleware chain of cmd/api/middleware.go: the per-client rate      *)
(* limiter with its background sweeper, the metrics stage behind the       *)
(* panic-recovery stage, the authenticator with the authorization guards,  *)
(* and enableCORS.  Time is a discrete clock `now` that counts minutes.    *)
(***************************************************************************)
EXTENDS Integers, Sequences, FiniteSets, TLC

(***************************************************************************)
(* Bounds of the model.                                                    *)
(***************************************************************************)
NumClients == 2      \* distinct client addresses (realip.FromRequest)
NumWorkers == 2      \* request goroutines running concurrently
MaxReq == 3          \* requests served in one behaviour
MaxBurst == 2        \* config.limiter.burst ranges over 1..MaxBurst
MaxPeriod == 2       \* 1/config.limiter.rps ranges over 1..MaxPeriod minutes
Slack == 1           \* minutes the clock runs past the idle threshold

(***************************************************************************)
(* Program constants.                                                      *)
(***************************************************************************)
SweepInterval == 1   \* time.Sleep(time.Minute), in minutes
IdleThreshold == 3   \* 3*time.Minute, in minutes

MaxTime == IdleThreshold + Slack

ClientIPs == 1..NumClients
Workers == 1..NumWorkers
NoIP == 0
Unlocked == 0        \* mu is free
Sweeper == NumWorkers + 1   \* the id under which the sweeper holds mu

Min(a, b) == IF a < b THEN a ELSE b

VARIABLES
  now,        \* the wall clock, in minutes
  limiter,    \* app.config.limiter: [enabled, burst, period]
  clients,    \* the map clients: ip -> [limiter: [tokens, last], lastSeen]
  mu,         \* holder of the mutex mu (Unlocked when free)
  wpc,        \* position of each request goroutine in rateLimit's handler
  wip,        \* the ip each request goroutine computed (NoIP when idle)
  spc,        \* position of the sweeper goroutine
  wakeAt,     \* the time the sweeper's time.Sleep ends
  hist,       \* history: per ip, the checks made on its current entry
  evicted,    \* history: ips whose entry the sweeper deleted, not seen since
  nreq        \* requests started so far

rlVars == <<now, limiter, clients, mu, wpc, wip, spc, wakeAt, hist,
            evicted, nreq>>

VARIABLES
  totalRequestsReceived,             \* expvar total_requests_received
  totalResponsesSent,                \* expvar total_responses_sent
  totalProcessingTimeMicroseconds,   \* expvar total_processing_time
  totalResponsesSentByStatus,        \* expvar map: Itoa(status) -> count
  mpc,        \* position of each request goroutine in recoverPanic(metrics(h))
  rw,         \* the http.ResponseWriter of each goroutine's request
  mw,         \* the metricsResponseWriter wrapped around it
  pv,         \* the value the downstream handler panicked with
  calls,      \* writer calls the downstream handler has made
  began,      \* history: panics recovered when the request arrived
  fate,       \* history: how the goroutine's last request ended
  panics,     \* history: panics recovered so far
  mreq        \* requests started so far

mCounters == <<totalRequestsReceived, totalResponsesSent,
               totalProcessingTimeMicroseconds, totalResponsesSentByStatus>>
mLocals == <<mpc, rw, mw, pv, calls, began, fate, panics, mreq>>
mVars == <<mCounters, mLocals>>

VARIABLES
  header,       \* the request's Authorization header, a string of atoms
  route,        \* the stages the request's route is composed of
  code,         \* the permission code of the route
  stack,        \* the stages still to run (empty: no request in the chain)
  ctxUser,      \* the user in the request context
  resp,         \* the error response written, by the helper's name
  varyAuth,     \* whether Vary: Authorization was added
  tokenCalls,   \* calls of Users.GetForToken for this request
  tokenResult,  \* what GetForToken returned
  permCalls,    \* calls of Permissions.GetAllForUser for this request
  permErr,      \* whether GetAllForUser returned an error
  permissions,  \* the permissions GetAllForUser returned
  authNext,     \* calls of next.ServeHTTP made by authenticate
  served        \* runs of the route's final handler

aVars == <<header, route, code, stack, ctxUser, resp, varyAuth, tokenCalls,
           tokenResult, permCalls, permErr, permissions, authNext, served>>

VARIABLES
  trustedOrigins,  \* app.config.cors.trustedOrigins
  origin,          \* the request's Origin header ("" when absent)
  method,          \* the request's method
  acrm,            \* the request's Access-Control-Request-Method header
  cpc,             \* position of the request in enableCORS's handler
  ci,              \* the index i of the loop over trustedOrigins
  vary,            \* the values added to the response's Vary header
  allowOrigin,     \* Access-Control-Allow-Origin of the response ("": unset)
  allowMethods,    \* Access-Control-Allow-Methods of the response
  allowHeaders,    \* Access-Control-Allow-Headers of the response
  corsStatus,      \* the status enableCORS wrote (0: none)
  corsNext         \* calls of next.ServeHTTP made by enableCORS

cVars == <<trustedOrigins, origin, method, acrm, cpc, ci, vary, allowOrigin,
           allowMethods, allowHeaders, corsStatus, corsNext>>

vars == <<rlVars, mVars, aVars, cVars>>

(***************************************************************************)
(* golang.org/x/time/rate, as rateLimit uses it.  Tokens are kept in units *)
(* of 1/period of a token so that the continuous refill is exact: one tick *)
(* adds one unit, one token is `period` units.                             *)
(***************************************************************************)
OneToken == limiter.period
FullBucket == limiter.burst * limiter.period

\* rate.NewLimiter(rate.Limit(rps), burst): a bucket holding the full burst.
NewLimiter == [tokens |-> FullBucket, last |-> now]

\* Limiter.advance: the tokens the bucket holds at time t.
Advance(e, t) == Min(FullBucket, e.tokens + (t - e.last))

\* Limiter.Allow() at time t: whether one token is available.
Allow(e, t) == Advance(e, t) >= OneToken

\* The bucket after Allow(): one token taken when allowed, unchanged when not.
AfterAllow(e, t) ==
  IF Allow(e, t)
  THEN [e EXCEPT !.tokens = Advance(e, t) - OneToken, !.last = t]
  ELSE e

\* The rate limiter when another stage is under study: built, never called.
ParkedRateLimit ==
  /\ limiter = [enabled |-> FALSE, burst |-> 1, period |-> 1]
  /\ clients = << >>
  /\ mu = Unlocked
  /\ wpc = [w \in Workers |-> "idle"]
  /\ wip = [w \in Workers |-> NoIP]
  /\ spc = "sleep"
  /\ wakeAt = SweepInterval
  /\ hist = [ip \in ClientIPs |-> << >>]
  /\ evicted = {}
  /\ nreq = 0

(***************************************************************************)
(* The initial state: rateLimit has built the empty map and launched the   *)
(* sweeper, which is in its first time.Sleep.                              *)
(***************************************************************************)
InitRateLimit ==
  /\ now = 0
  /\ limiter \in [enabled : BOOLEAN, burst : 1..MaxBurst, period : 1..MaxPeriod]
  /\ clients = << >>
  /\ mu = Unlocked
  /\ wpc = [w \in Workers |-> "idle"]
  /\ wip = [w \in Workers |-> NoIP]
  /\ spc = "sleep"
  /\ wakeAt = SweepInterval
  /\ hist = [ip \in ClientIPs |-> << >>]
  /\ evicted = {}
  /\ nreq = 0

\* The clock advances independently of every goroutine.
Tick ==
  /\ now < MaxTime
  /\ now' = now + 1
  /\ UNCHANGED <<limiter, clients, mu, wpc, wip, spc, wakeAt, hist,
                 evicted, nreq>>

(***************************************************************************)
(* The sweeper goroutine.                                                  *)
(***************************************************************************)
\* time.Sleep(time.Minute) returns, a minute or more after it began.
SweeperWake ==
  /\ spc = "sleep"
  /\ now >= wakeAt
  /\ spc' = "lock"
  /\ UNCHANGED <<now, limiter, clients, mu, wpc, wip, wakeAt, hist,
                 evicted, nreq>>

\* mu.Lock() of the sweeper.
SweeperLock ==
  /\ spc = "lock"
  /\ mu = Unlocked
  /\ mu' = Sweeper
  /\ spc' = "sweep"
  /\ UNCHANGED <<now, limiter, clients, wpc, wip, wakeAt, hist,
                 evicted, nreq>>

\* A faulty idle test that also deletes an entry seen exactly three minutes ago.
IdleAtThreshold(e) == now - e.lastSeen >= IdleThreshold
\* time.Since(client.lastSeen) > 3*time.Minute
Idle(e) == now - e.lastSeen > IdleThreshold

\* The ips the range loop deletes.
Swept == {ip \in DOMAIN clients : Idle(clients[ip])}

\* What the sweeper does with mu when the range loop has ended: the loop body
\* ends without mu.Unlock(), so the mutex stays with the sweeper.
MuAfterSweep == mu

\* The range loop over clients, then back to time.Sleep.
SweeperSweep ==
  /\ spc = "sweep"
  /\ clients' = [ip \in DOMAIN clients \ Swept |-> clients[ip]]
  /\ evicted' = evicted \cup Swept
  /\ hist' = [ip \in ClientIPs |-> IF ip \in Swept THEN << >> ELSE hist[ip]]
  /\ mu' = MuAfterSweep
  /\ spc' = "sleep"
  /\ wakeAt' = now + SweepInterval
  /\ UNCHANGED <<now, limiter, wpc, wip, nreq>>

(***************************************************************************)
(* A request goroutine in the handler rateLimit returns.                   *)
(***************************************************************************)
\* A faulty handler that runs the admission check whatever the flag says.
RequestUnconditional(w, ip) ==
  /\ wpc[w] = "idle"
  /\ nreq < MaxReq
  /\ nreq' = nreq + 1
  /\ wpc' = [wpc EXCEPT ![w] = "lock"]
  /\ wip' = [wip EXCEPT ![w] = ip]
  /\ UNCHANGED <<now, limiter, clients, mu, spc, wakeAt, hist, evicted>>

\* A request arrives: the test of app.config.limiter.enabled, and
\* realip.FromRequest when the limiter is on.
Request(w, ip) ==
  /\ wpc[w] = "idle"
  /\ nreq < MaxReq
  /\ nreq' = nreq + 1
  /\ IF limiter.enabled
     THEN /\ wpc' = [wpc EXCEPT ![w] = "lock"]
          /\ wip' = [wip EXCEPT ![w] = ip]
     ELSE /\ wpc' = [wpc EXCEPT ![w] = "next"]
          /\ wip' = wip
  /\ UNCHANGED <<now, limiter, clients, mu, spc, wakeAt, hist, evicted>>

\* mu.Lock() of a request goroutine.
Lock(w) ==
  /\ wpc[w] = "lock"
  /\ mu = Unlocked
  /\ mu' = w
  /\ wpc' = [wpc EXCEPT ![w] = "check"]
  /\ UNCHANGED <<now, limiter, clients, wip, spc, wakeAt, hist,
                 evicted, nreq>>

\* A faulty lookup that stamps lastSeen only when it creates the entry.
SeenStale(ip) ==
  IF ip \in DOMAIN clients
  THEN clients[ip]
  ELSE [limiter |-> NewLimiter, lastSeen |-> now]

\* The entry of ip after the lookup, the creation when it is missing and the
\* assignment of lastSeen.
Seen(ip) ==
  IF ip \in DOMAIN clients
  THEN [clients[ip] EXCEPT !.lastSeen = now]
  ELSE [limiter |-> NewLimiter, lastSeen |-> now]

\* Whether the check of ip admits the request: clients[ip].limiter.Allow().
Admitted(ip) == Allow(Seen(ip).limiter, now)

\* The entry of ip when the critical section ends.
Checked(ip) == [Seen(ip) EXCEPT !.limiter = AfterAllow(Seen(ip).limiter, now)]

\* A faulty critical section that keeps one bucket for all the clients.
CheckSharedBucket(w) ==
  /\ wpc[w] = "check"
  /\ LET ip == wip[w] IN
       /\ clients' = [i \in DOMAIN clients \cup {ip} |-> Checked(ip)]
       /\ hist' = [hist EXCEPT ![ip] =
                     Append(IF ip \in DOMAIN clients THEN hist[ip] ELSE << >>,
                            [t |-> now, ok |-> Admitted(ip)])]
       /\ evicted' = evicted \ {ip}
       /\ wpc' = [wpc EXCEPT ![w] = IF Admitted(ip) THEN "next" ELSE "exceeded"]
  /\ mu' = Unlocked
  /\ UNCHANGED <<now, limiter, wip, spc, wakeAt, nreq>>

\* A faulty critical section whose denied branch returns without mu.Unlock().
CheckLockedOnDenial(w) ==
  /\ wpc[w] = "check"
  /\ LET ip == wip[w] IN
       /\ clients' = [i \in DOMAIN clients \cup {ip} |->
                        IF i = ip THEN Checked(ip) ELSE clients[i]]
       /\ hist' = [hist EXCEPT ![ip] =
                     Append(IF ip \in DOMAIN clients THEN hist[ip] ELSE << >>,
                            [t |-> now, ok |-> Admitted(ip)])]
       /\ evicted' = evicted \ {ip}
       /\ wpc' = [wpc EXCEPT ![w] = IF Admitted(ip) THEN "next" ELSE "exceeded"]
       /\ mu' = IF Admitted(ip) THEN Unlocked ELSE mu
  /\ UNCHANGED <<now, limiter, wip, spc, wakeAt, nreq>>

\* The critical section: lookup, creation, lastSeen, Allow(), and the
\* mu.Unlock() of the branch taken.
Check(w) ==
  /\ wpc[w] = "check"
  /\ LET ip == wip[w] IN
       /\ clients' = [i \in DOMAIN clients \cup {ip} |->
                        IF i = ip THEN Checked(ip) ELSE clients[i]]
       /\ hist' = [hist EXCEPT ![ip] =
                     Append(IF ip \in DOMAIN clients THEN hist[ip] ELSE << >>,
                            [t |-> now, ok |-> Admitted(ip)])]
       /\ evicted' = evicted \ {ip}
       /\ wpc' = [wpc EXCEPT ![w] = IF Admitted(ip) THEN "next" ELSE "exceeded"]
  /\ mu' = Unlocked
  /\ UNCHANGED <<now, limiter, wip, spc, wakeAt, nreq>>

\* A faulty denied branch that writes the response and does not return.
ExceededFallsThrough(w) ==
  /\ wpc[w] = "exceeded"
  /\ wpc' = [wpc EXCEPT ![w] = "next"]
  /\ UNCHANGED <<now, limiter, clients, mu, wip, spc, wakeAt, hist, evicted,
                 nreq>>

\* app.rateLimitExceededResponse(w, r), then return.
Exceeded(w) ==
  /\ wpc[w] = "exceeded"
  /\ wpc' = [wpc EXCEPT ![w] = "idle"]
  /\ wip' = [wip EXCEPT ![w] = NoIP]
  /\ UNCHANGED <<now, limiter, clients, mu, spc, wakeAt, hist, evicted, nreq>>

\* next.ServeHTTP(w, r)
ServeNext(w) ==
  /\ wpc[w] = "next"
  /\ wpc' = [wpc EXCEPT ![w] = "idle"]
  /\ wip' = [wip EXCEPT ![w] = NoIP]
  /\ UNCHANGED <<now, limiter, clients, mu, spc, wakeAt, hist, evicted, nreq>>

\* The other stages do nothing meanwhile.
OnlyRateLimit == UNCHANGED <<mVars, aVars, cVars>>

NextRateLimit ==
  \/ Tick /\ OnlyRateLimit
  \/ SweeperWake /\ OnlyRateLimit
  \/ SweeperLock /\ OnlyRateLimit
  \/ SweeperSweep /\ OnlyRateLimit
  \/ \E w \in Workers, ip \in ClientIPs : Request(w, ip) /\ OnlyRateLimit
  \/ \E w \in Workers : Lock(w) /\ OnlyRateLimit
  \/ \E w \in Workers : Check(w) /\ OnlyRateLimit
  \/ \E w \in Workers : Exceeded(w) /\ OnlyRateLimit
  \/ \E w \in Workers : ServeNext(w) /\ OnlyRateLimit

(***************************************************************************)
(* recoverPanic(metrics(h)): the metrics stage behind the recovery stage,  *)
(* around a downstream handler h that writes, returns or panics.           *)
(***************************************************************************)
MaxCalls == 2                 \* writer calls of one downstream handler run
MaxElapsed == 1               \* minutes one request may take
MicrosPerMinute == 60000000   \* Duration.Microseconds() of one minute

HandlerCodes == {200, 404}    \* statuses the downstream handler may write
StatusInternalServerError == 500
Nil == "nil"
PanicValues == {"boom"}       \* values passed to panic(): never nil

\* strconv.Itoa of a status code: its decimal digits.
RECURSIVE Itoa(_)
Itoa(n) == IF n < 10 THEN <<n>> ELSE Append(Itoa(n \div 10), n % 10)

\* Duration.Microseconds() of d minutes.
Microseconds(d) == d * MicrosPerMinute

\* A faulty counter that stores the delta instead of adding it.
ExpvarSet(v, delta) == delta
\* expvar.Int.Add: an atomic addition.
ExpvarAdd(v, delta) == v + delta

\* expvar.Map.Add: the key is created at delta when it is missing.
MapAdd(m, key, delta) ==
  [k \in DOMAIN m \cup {key} |->
     IF k = key
     THEN (IF key \in DOMAIN m THEN ExpvarAdd(m[key], delta) ELSE delta)
     ELSE m[k]]

\* A fresh http.ResponseWriter: nothing committed, no Connection header.
\* status is the status line sent (0: none yet), close the Connection: close
\* entry of the header map, closeSent whether the headers sent carry it.
NewResponseWriter == [status |-> 0, close |-> FALSE, closeSent |-> FALSE]

\* ResponseWriter.WriteHeader: the first call commits status and headers,
\* later calls change nothing.
RwWriteHeader(r, status) ==
  IF r.status = 0 THEN [r EXCEPT !.status = status, !.closeSent = r.close] ELSE r

\* ResponseWriter.Write: commits 200 when nothing is committed yet.
RwWrite(r) == RwWriteHeader(r, 200)

\* A faulty recovery that leaves the Connection header alone.
Unmarked(r) == r
\* w.Header().Set("Connection", "close")
SetConnectionClose(r) == [r EXCEPT !.close = TRUE]

\* app.serverErrorResponse(w, r, err): the generic 500 response.
ServerErrorResponse(r) == RwWrite(RwWriteHeader(r, StatusInternalServerError))

\* newMetricsResponseWriter
NewMetricsResponseWriter == [statusCode |-> 200, headerWritten |-> FALSE]

\* metricsResponseWriter.WriteHeader, the fields of mw after it.
MwWriteHeader(m, status) ==
  IF ~m.headerWritten THEN [statusCode |-> status, headerWritten |-> TRUE] ELSE m

\* A faulty Write that does not record that the header is written.
MwWriteUnmarked(m) == m
\* metricsResponseWriter.Write, the fields of mw after it.
MwWrite(m) == [m EXCEPT !.headerWritten = TRUE]

\* The deferred function of recoverPanic on the writer, err being the value
\* recover() returned.
Deferred(r, err) ==
  IF err # Nil THEN ServerErrorResponse(SetConnectionClose(r)) ELSE r

\* The metrics stage when another stage is under study: built, never called.
ParkedMetrics ==
  /\ totalRequestsReceived = 0
  /\ totalResponsesSent = 0
  /\ totalProcessingTimeMicroseconds = 0
  /\ totalResponsesSentByStatus = << >>
  /\ mpc = [w \in Workers |-> "idle"]
  /\ rw = [w \in Workers |-> NewResponseWriter]
  /\ mw = [w \in Workers |-> NewMetricsResponseWriter]
  /\ pv = [w \in Workers |-> Nil]
  /\ calls = [w \in Workers |-> 0]
  /\ began = [w \in Workers |-> 0]
  /\ fate = [w \in Workers |-> "none"]
  /\ panics = 0
  /\ mreq = 0

\* A request enters recoverPanic's handler, which defers its function and
\* calls next.ServeHTTP(w, r): the metrics handler, up to its own call
\* next.ServeHTTP(mw, r).
Serve(w) ==
  /\ mpc[w] = "idle"
  /\ mreq < MaxReq
  /\ mreq' = mreq + 1
  /\ totalRequestsReceived' = ExpvarAdd(totalRequestsReceived, 1)
  /\ rw' = [rw EXCEPT ![w] = NewResponseWriter]
  /\ mw' = [mw EXCEPT ![w] = NewMetricsResponseWriter]
  /\ mpc' = [mpc EXCEPT ![w] = "handler"]
  /\ began' = [began EXCEPT ![w] = panics]
  /\ fate' = [fate EXCEPT ![w] = "none"]
  /\ UNCHANGED <<totalResponsesSent, totalProcessingTimeMicroseconds,
                 totalResponsesSentByStatus, pv, calls, panics>>

\* The downstream handler calls mw.WriteHeader(status).
HandlerWriteHeader(w, status) ==
  /\ mpc[w] = "handler"
  /\ calls[w] < MaxCalls
  /\ calls' = [calls EXCEPT ![w] = @ + 1]
  /\ rw' = [rw EXCEPT ![w] = RwWriteHeader(@, status)]
  /\ mw' = [mw EXCEPT ![w] = MwWriteHeader(@, status)]
  /\ UNCHANGED <<mCounters, mpc, pv, began, fate, panics, mreq>>

\* The downstream handler calls mw.Write(b).
HandlerWrite(w) ==
  /\ mpc[w] = "handler"
  /\ calls[w] < MaxCalls
  /\ calls' = [calls EXCEPT ![w] = @ + 1]
  /\ mw' = [mw EXCEPT ![w] = MwWrite(@)]
  /\ rw' = [rw EXCEPT ![w] = RwWrite(@)]
  /\ UNCHANGED <<mCounters, mpc, pv, began, fate, panics, mreq>>

\* The downstream handler returns.
HandlerReturn(w) ==
  /\ mpc[w] = "handler"
  /\ mpc' = [mpc EXCEPT ![w] = "sent"]
  /\ calls' = [calls EXCEPT ![w] = 0]
  /\ UNCHANGED <<mCounters, rw, mw, pv, began, fate, panics, mreq>>

\* A faulty metrics handler that counts the response in a deferred function,
\* which runs while the panic unwinds.
HandlerPanicCounted(w, v) ==
  /\ mpc[w] = "handler"
  /\ pv' = [pv EXCEPT ![w] = v]
  /\ mpc' = [mpc EXCEPT ![w] = "panicking"]
  /\ calls' = [calls EXCEPT ![w] = 0]
  /\ totalResponsesSent' = ExpvarAdd(totalResponsesSent, 1)
  /\ UNCHANGED <<totalRequestsReceived, totalProcessingTimeMicroseconds,
                 totalResponsesSentByStatus, rw, mw, began, fate, panics, mreq>>

\* The downstream handler panics: the metrics handler has no deferred
\* function, so the panic unwinds through it to recoverPanic.
HandlerPanic(w, v) ==
  /\ mpc[w] = "handler"
  /\ pv' = [pv EXCEPT ![w] = v]
  /\ mpc' = [mpc EXCEPT ![w] = "panicking"]
  /\ calls' = [calls EXCEPT ![w] = 0]
  /\ UNCHANGED <<mCounters, rw, mw, began, fate, panics, mreq>>

\* totalResponsesSent.Add(1)
MetricsSent(w) ==
  /\ mpc[w] = "sent"
  /\ totalResponsesSent' = ExpvarAdd(totalResponsesSent, 1)
  /\ mpc' = [mpc EXCEPT ![w] = "byStatus"]
  /\ UNCHANGED <<totalRequestsReceived, totalProcessingTimeMicroseconds,
                 totalResponsesSentByStatus, rw, mw, pv, calls, began, fate, panics, mreq>>

\* totalResponsesSentByStatus.Add(strconv.Itoa(mw.statusCode), 1)
MetricsByStatus(w) ==
  /\ mpc[w] = "byStatus"
  /\ totalResponsesSentByStatus' =
       MapAdd(totalResponsesSentByStatus, Itoa(mw[w].statusCode), 1)
  /\ mpc' = [mpc EXCEPT ![w] = "time"]
  /\ UNCHANGED <<totalRequestsReceived, totalResponsesSent,
                 totalProcessingTimeMicroseconds, rw, mw, pv, calls, began, fate, panics, mreq>>

\* duration := time.Since(start).Microseconds(), added to the total; the
\* metrics handler returns.  The time d the request took is the
\* environment's choice.
MetricsTime(w, d) ==
  /\ mpc[w] = "time"
  /\ totalProcessingTimeMicroseconds' =
       ExpvarAdd(totalProcessingTimeMicroseconds, Microseconds(d))
  /\ mpc' = [mpc EXCEPT ![w] = "return"]
  /\ UNCHANGED <<totalRequestsReceived, totalResponsesSent,
                 totalResponsesSentByStatus, rw, mw, pv, calls, began, fate,
                 panics, mreq>>

\* next.ServeHTTP returned: the deferred function runs, recover() returns nil.
RecoverReturn(w) ==
  /\ mpc[w] = "return"
  /\ rw' = [rw EXCEPT ![w] = Deferred(@, Nil)]
  /\ fate' = [fate EXCEPT ![w] = "returned"]
  /\ mpc' = [mpc EXCEPT ![w] = "idle"]
  /\ UNCHANGED <<mCounters, mw, pv, calls, began, panics, mreq>>

\* The panic reaches the deferred function: recover() returns its value and
\* ends the panic; the handler of recoverPanic returns.
RecoverPanic(w) ==
  /\ mpc[w] = "panicking"
  /\ rw' = [rw EXCEPT ![w] = Deferred(@, pv[w])]
  /\ pv' = [pv EXCEPT ![w] = Nil]
  /\ fate' = [fate EXCEPT ![w] = "panicked"]
  /\ panics' = panics + 1
  /\ mpc' = [mpc EXCEPT ![w] = "idle"]
  /\ UNCHANGED <<mCounters, mw, calls, began, mreq>>

\* The other stages do nothing meanwhile.
OnlyMetrics == UNCHANGED <<rlVars, aVars, cVars>>

NextMetrics ==
  \/ \E w \in Workers : Serve(w) /\ OnlyMetrics
  \/ \E w \in Workers, status \in HandlerCodes :
       HandlerWriteHeader(w, status) /\ OnlyMetrics
  \/ \E w \in Workers : HandlerWrite(w) /\ OnlyMetrics
  \/ \E w \in Workers : HandlerReturn(w) /\ OnlyMetrics
  \/ \E w \in Workers, v \in PanicValues : HandlerPanic(w, v) /\ OnlyMetrics
  \/ \E w \in Workers : MetricsSent(w) /\ OnlyMetrics
  \/ \E w \in Workers : MetricsByStatus(w) /\ OnlyMetrics
  \/ \E w \in Workers, d \in 0..MaxElapsed :
       MetricsTime(w, d) /\ OnlyMetrics
  \/ \E w \in Workers : RecoverReturn(w) /\ OnlyMetrics
  \/ \E w \in Workers : RecoverPanic(w) /\ OnlyMetrics

(***************************************************************************)
(* authenticate and the authorization guards.  A header is a string of     *)
(* atoms: the space, and words that hold no space.                         *)
(***************************************************************************)
MaxHeader == 4                \* atoms in an Authorization header

SP == " "
Atoms == {SP, "Bearer", "bearer", "T26", "s20"}

\* len() of an atom, in bytes.
AtomLen(a) ==
  CASE a = SP -> 1
    [] a = "Bearer" -> 6
    [] a = "bearer" -> 6
    [] a = "T26" -> 26
    [] a = "s20" -> 20

RECURSIVE StrLen(_)
StrLen(s) == IF s = << >> THEN 0 ELSE AtomLen(Head(s)) + StrLen(Tail(s))

RECURSIVE HeadersUpTo(_)
HeadersUpTo(n) ==
  IF n = 0 THEN {<< >>}
  ELSE LET shorter == HeadersUpTo(n - 1) IN
         shorter \cup {Append(h, a) : h \in shorter, a \in Atoms}

Headers == HeadersUpTo(MaxHeader)

\* strings.Split(s, " ")
RECURSIVE Split(_)
Split(s) ==
  IF s = << >> THEN << << >> >>
  ELSE IF Head(s) = SP THEN << << >> >> \o Split(Tail(s))
  ELSE LET rest == Split(Tail(s)) IN
         << <<Head(s)>> \o rest[1] >> \o Tail(rest)

\* headerParts := strings.Split(authorizationHeader, " ")
HeaderParts(h) == Split(h)

\* A faulty header test that accepts any scheme word.
AnyScheme(h) == Len(HeaderParts(h)) # 2
\* len(headerParts) != 2 || headerParts[0] != "Bearer"
Malformed(h) == Len(HeaderParts(h)) # 2 \/ HeaderParts(h)[1] # <<"Bearer">>

\* data.ValidateTokenPlaintext: the token is provided and 26 bytes long.
TokenLen == 26
ValidTokenPlaintext(token) == token # << >> /\ StrLen(token) = TokenLen

\* The users the token store knows, and data.AnonymousUser.
Users == {[id |-> 1, activated |-> TRUE], [id |-> 2, activated |-> FALSE]}
AnonymousUser == [id |-> 0, activated |-> FALSE]
NoUser == [id |-> -1, activated |-> FALSE]

\* User.IsAnonymous
IsAnonymous(u) == u = AnonymousUser

\* A faulty authenticate that attaches no identity to a headerless request.
NoIdentity == NoUser
\* The identity authenticate attaches when there is no Authorization header.
HeaderlessIdentity == AnonymousUser

Codes == {"movies:read", "movies:write"}
NoCode == "none"

\* Permissions.Include
Include(perms, c) == c \in perms

\* A faulty permission test that only asks whether the user has any permission.
NoPermissions(perms, c) == perms = {}
\* The test of requirePermission's function: if !permissions.Include(code).
Forbidden(perms, c) == ~Include(perms, c)

\* A faulty switch that reports every lookup error as an invalid token.
AlwaysInvalid(result) == "invalidAuthenticationToken"
\* The error response for the error GetForToken returned: the switch on
\* errors.Is(err, data.ErrRecordNotFound).
LookupFailure(result) ==
  IF result = "notFound" THEN "invalidAuthenticationToken" ELSE "serverError"

\* The status of each error response.
Status(name) ==
  CASE name = "invalidAuthenticationToken" -> 401
    [] name = "authenticationRequired" -> 401
    [] name = "inactiveAccount" -> 403
    [] name = "notPermitted" -> 403
    [] name = "rateLimitExceeded" -> 429
    [] name = "serverError" -> 500
    [] OTHER -> 0

\* The route's final handler, and the middleware wrapped around a handler.
Handler == <<"handler">>
requireAuthenticatedUser(next) == <<"requireAuthenticatedUser">> \o next
\* A faulty requireActivatedUser that is not wrapped in requireAuthenticatedUser.
Unwrapped(next) == <<"requireActivatedUser">> \o next
\* requireActivatedUser returns app.requireAuthenticatedUser(fn).
requireActivatedUser(next) ==
  requireAuthenticatedUser(<<"requireActivatedUser">> \o next)
\* A faulty requirePermission wrapped in requireAuthenticatedUser only.
requirePermissionUnactivated(next) ==
  requireAuthenticatedUser(<<"requirePermission">> \o next)
\* requirePermission returns app.requireActivatedUser(fn).
requirePermission(next) == requireActivatedUser(<<"requirePermission">> \o next)
authenticate(next) == <<"authenticate">> \o next

\* The routes: a handler behind authenticate, bare or behind one of the guards.
PermissionRoute == authenticate(requirePermission(Handler))
Routes ==
  { authenticate(Handler),
    authenticate(requireAuthenticatedUser(Handler)),
    authenticate(requireActivatedUser(Handler)),
    PermissionRoute }

\* No request is in the chain.
ParkedAuth ==
  /\ header = << >>
  /\ route = << >>
  /\ code = NoCode
  /\ stack = << >>
  /\ ctxUser = NoUser
  /\ resp = "none"
  /\ varyAuth = FALSE
  /\ tokenCalls = 0
  /\ tokenResult = "none"
  /\ permCalls = 0
  /\ permErr = FALSE
  /\ permissions = {}
  /\ authNext = 0
  /\ served = 0

Stage == IF stack = << >> THEN "none" ELSE Head(stack)

\* A stage writes the error response `name` and returns.
ShortCircuit(name) ==
  /\ resp' = name
  /\ stack' = << >>

\* A request with Authorization header h arrives on route r, which asks for
\* permission c when it is the permission route.
NewRequest(h, r, c) ==
  /\ route = << >>
  /\ header' = h
  /\ route' = r
  /\ code' = c
  /\ stack' = r
  /\ ctxUser' = NoUser
  /\ resp' = "none"
  /\ varyAuth' = FALSE
  /\ tokenCalls' = 0
  /\ tokenResult' = "none"
  /\ permCalls' = 0
  /\ permErr' = FALSE
  /\ permissions' = {}
  /\ authNext' = 0
  /\ served' = 0

\* authenticate, no Authorization header: the anonymous user, then next.
AuthAnonymous ==
  /\ Stage = "authenticate"
  /\ header = << >>
  /\ varyAuth' = TRUE
  /\ ctxUser' = HeaderlessIdentity
  /\ authNext' = authNext + 1
  /\ stack' = Tail(stack)
  /\ UNCHANGED <<header, route, code, resp, tokenCalls, tokenResult,
                 permCalls, permErr, permissions, served>>

\* authenticate, a header that is not "Bearer <token>".
AuthMalformed ==
  /\ Stage = "authenticate"
  /\ header # << >>
  /\ Malformed(header)
  /\ varyAuth' = TRUE
  /\ ShortCircuit("invalidAuthenticationToken")
  /\ UNCHANGED <<header, route, code, ctxUser, tokenCalls, tokenResult,
                 permCalls, permErr, permissions, authNext, served>>

\* authenticate, a token that fails data.ValidateTokenPlaintext.
AuthInvalidToken ==
  /\ Stage = "authenticate"
  /\ header # << >>
  /\ ~Malformed(header)
  /\ ~ValidTokenPlaintext(HeaderParts(header)[2])
  /\ varyAuth' = TRUE
  /\ ShortCircuit("invalidAuthenticationToken")
  /\ UNCHANGED <<header, route, code, ctxUser, tokenCalls, tokenResult,
                 permCalls, permErr, permissions, authNext, served>>

\* The header passes the checks made before Users.GetForToken is called.
Lookup ==
  /\ Stage = "authenticate"
  /\ header # << >>
  /\ ~Malformed(header)
  /\ ValidTokenPlaintext(HeaderParts(header)[2])
  /\ varyAuth' = TRUE
  /\ tokenCalls' = tokenCalls + 1

\* authenticate, GetForToken returns data.ErrRecordNotFound.
AuthNotFound ==
  /\ Lookup
  /\ tokenResult' = "notFound"
  /\ ShortCircuit(LookupFailure("notFound"))
  /\ UNCHANGED <<header, route, code, ctxUser, permCalls, permErr,
                 permissions, authNext, served>>

\* authenticate, GetForToken returns another error.
AuthLookupError ==
  /\ Lookup
  /\ tokenResult' = "error"
  /\ ShortCircuit(LookupFailure("error"))
  /\ UNCHANGED <<header, route, code, ctxUser, permCalls, permErr,
                 permissions, authNext, served>>

\* authenticate, GetForToken returns the user u: the user, then next.
AuthFound(u) ==
  /\ Lookup
  /\ tokenResult' = "found"
  /\ ctxUser' = u
  /\ authNext' = authNext + 1
  /\ stack' = Tail(stack)
  /\ UNCHANGED <<header, route, code, resp, permCalls, permErr, permissions,
                 served>>

\* The function of requireAuthenticatedUser.
GuardAuthenticated ==
  /\ Stage = "requireAuthenticatedUser"
  /\ IF IsAnonymous(ctxUser)
     THEN ShortCircuit("authenticationRequired")
     ELSE stack' = Tail(stack) /\ resp' = resp
  /\ UNCHANGED <<header, route, code, ctxUser, varyAuth, tokenCalls,
                 tokenResult, permCalls, permErr, permissions, authNext, served>>

\* The function of requireActivatedUser.
GuardActivated ==
  /\ Stage = "requireActivatedUser"
  /\ IF ~ctxUser.activated
     THEN ShortCircuit("inactiveAccount")
     ELSE stack' = Tail(stack) /\ resp' = resp
  /\ UNCHANGED <<header, route, code, ctxUser, varyAuth, tokenCalls,
                 tokenResult, permCalls, permErr, permissions, authNext, served>>

\* The function of requirePermission, GetAllForUser returns an error.
GuardPermissionError ==
  /\ Stage = "requirePermission"
  /\ permCalls' = permCalls + 1
  /\ permErr' = TRUE
  /\ ShortCircuit("serverError")
  /\ UNCHANGED <<header, route, code, ctxUser, varyAuth, tokenCalls,
                 tokenResult, permissions, authNext, served>>

\* The function of requirePermission, GetAllForUser returns perms.
GuardPermission(perms) ==
  /\ Stage = "requirePermission"
  /\ permCalls' = permCalls + 1
  /\ permissions' = perms
  /\ IF Forbidden(perms, code)
     THEN ShortCircuit("notPermitted")
     ELSE stack' = Tail(stack) /\ resp' = resp
  /\ UNCHANGED <<header, route, code, ctxUser, varyAuth, tokenCalls,
                 tokenResult, permErr, authNext, served>>

\* The route's final handler runs.
Serve200 ==
  /\ Stage = "handler"
  /\ served' = served + 1
  /\ stack' = << >>
  /\ UNCHANGED <<header, route, code, ctxUser, resp, varyAuth, tokenCalls,
                 tokenResult, permCalls, permErr, permissions, authNext>>

\* The chain has returned: the request is over.
Leave ==
  /\ route # << >>
  /\ stack = << >>
  /\ header' = << >>
  /\ route' = << >>
  /\ code' = NoCode
  /\ ctxUser' = NoUser
  /\ resp' = "none"
  /\ varyAuth' = FALSE
  /\ tokenCalls' = 0
  /\ tokenResult' = "none"
  /\ permCalls' = 0
  /\ permErr' = FALSE
  /\ permissions' = {}
  /\ authNext' = 0
  /\ served' = 0
  /\ UNCHANGED stack

\* The other stages do nothing meanwhile.
OnlyAuth == UNCHANGED <<rlVars, mVars, cVars>>

NextAuth ==
  \/ \E h \in Headers, r \in Routes, c \in Codes :
       NewRequest(h, r, IF r = PermissionRoute THEN c ELSE NoCode) /\ OnlyAuth
  \/ AuthAnonymous /\ OnlyAuth
  \/ AuthMalformed /\ OnlyAuth
  \/ AuthInvalidToken /\ OnlyAuth
  \/ AuthNotFound /\ OnlyAuth
  \/ AuthLookupError /\ OnlyAuth
  \/ \E u \in Users : AuthFound(u) /\ OnlyAuth
  \/ GuardAuthenticated /\ OnlyAuth
  \/ GuardActivated /\ OnlyAuth
  \/ GuardPermissionError /\ OnlyAuth
  \/ \E perms \in SUBSET Codes : GuardPermission(perms) /\ OnlyAuth
  \/ Serve200 /\ OnlyAuth
  \/ Leave /\ OnlyAuth

(***************************************************************************)
(* enableCORS.  Origins are compared byte for byte; Fold is the case       *)
(* folding a comparison of host names would apply and the code does not.   *)
(***************************************************************************)
MaxTrusted == 2               \* entries of config.cors.trustedOrigins

NoOrigin == ""
SiteOrigins == {"https://a.example", "https://A.example", "https://b.example"}
Origins == {NoOrigin} \cup SiteOrigins
Methods == {"GET", "OPTIONS", "PUT"}
MethodOptions == "OPTIONS"
RequestMethods == {"", "PUT"}  \* values of Access-Control-Request-Method
StatusOK == 200

\* The trusted-origins lists of the configuration: non-empty origins.
RECURSIVE ListsUpTo(_)
ListsUpTo(n) ==
  IF n = 0 THEN {<< >>}
  ELSE LET shorter == ListsUpTo(n - 1) IN
         shorter \cup {Append(l, o) : l \in shorter, o \in SiteOrigins}

TrustedLists == ListsUpTo(MaxTrusted)

Fold(o) == IF o = "https://A.example" THEN "https://a.example" ELSE o

\* A faulty comparison that ignores the case of the origin.
EqualFold(a, b) == Fold(a) = Fold(b)
\* origin == app.config.cors.trustedOrigins[i]
SameOrigin(a, b) == a = b

\* r.Method == http.MethodOptions &&
\* r.Header.Get("Access-Control-Request-Method") != ""
Preflight == method = MethodOptions /\ acrm # ""

\* enableCORS is built with the configuration's list; no request yet.
IdleCORS ==
  /\ origin = NoOrigin
  /\ method = "GET"
  /\ acrm = ""
  /\ cpc = "idle"
  /\ ci = 0
  /\ vary = << >>
  /\ allowOrigin = ""
  /\ allowMethods = FALSE
  /\ allowHeaders = FALSE
  /\ corsStatus = 0
  /\ corsNext = 0

\* enableCORS when another stage is under study: built, never called.
ParkedCORS == trustedOrigins = << >> /\ IdleCORS

\* A request arrives: the two Vary values are added and the Origin header is
\* read and tested for emptiness.
CORSRequest(o, m, a) ==
  /\ cpc = "idle"
  /\ origin' = o
  /\ method' = m
  /\ acrm' = a
  /\ vary' = <<"Origin", "Access-Control-Request-Method">>
  /\ ci' = 1
  /\ cpc' = IF o # "" THEN "loop" ELSE "next"
  /\ UNCHANGED <<trustedOrigins, allowOrigin, allowMethods, allowHeaders,
                 corsStatus, corsNext>>

\* The loop over trustedOrigins: entry i is not the origin.
CORSMismatch ==
  /\ cpc = "loop"
  /\ ci <= Len(trustedOrigins)
  /\ ~SameOrigin(origin, trustedOrigins[ci])
  /\ ci' = ci + 1
  /\ UNCHANGED <<trustedOrigins, origin, method, acrm, cpc, vary, allowOrigin,
                 allowMethods, allowHeaders, corsStatus, corsNext>>

\* The loop ends without a match.
CORSUntrusted ==
  /\ cpc = "loop"
  /\ ci > Len(trustedOrigins)
  /\ cpc' = "next"
  /\ UNCHANGED <<trustedOrigins, origin, method, acrm, ci, vary, allowOrigin,
                 allowMethods, allowHeaders, corsStatus, corsNext>>

\* Entry i is the origin and the request is a preflight: the three headers,
\* w.WriteHeader(http.StatusOK), return.
CORSPreflight ==
  /\ cpc = "loop"
  /\ ci <= Len(trustedOrigins)
  /\ SameOrigin(origin, trustedOrigins[ci])
  /\ Preflight
  /\ allowOrigin' = origin
  /\ allowMethods' = TRUE
  /\ allowHeaders' = TRUE
  /\ corsStatus' = StatusOK
  /\ cpc' = "done"
  /\ UNCHANGED <<trustedOrigins, origin, method, acrm, ci, vary, corsNext>>

\* Entry i is the origin and the request is no preflight: the Allow-Origin
\* header, break.
CORSTrusted ==
  /\ cpc = "loop"
  /\ ci <= Len(trustedOrigins)
  /\ SameOrigin(origin, trustedOrigins[ci])
  /\ ~Preflight
  /\ allowOrigin' = origin
  /\ cpc' = "next"
  /\ UNCHANGED <<trustedOrigins, origin, method, acrm, ci, vary, allowMethods,
                 allowHeaders, corsStatus, corsNext>>

\* next.ServeHTTP(w, r), then the handler returns.
CORSNext ==
  /\ cpc = "next"
  /\ corsNext' = corsNext + 1
  /\ cpc' = "done"
  /\ UNCHANGED <<trustedOrigins, origin, method, acrm, ci, vary, allowOrigin,
                 allowMethods, allowHeaders, corsStatus>>

\* The handler has returned: the request is over.
CORSLeave ==
  /\ cpc = "done"
  /\ origin' = NoOrigin
  /\ method' = "GET"
  /\ acrm' = ""
  /\ cpc' = "idle"
  /\ ci' = 0
  /\ vary' = << >>
  /\ allowOrigin' = ""
  /\ allowMethods' = FALSE
  /\ allowHeaders' = FALSE
  /\ corsStatus' = 0
  /\ corsNext' = 0
  /\ UNCHANGED trustedOrigins

\* The other stages do nothing meanwhile.
OnlyCORS == UNCHANGED <<rlVars, mVars, aVars>>

NextCORS ==
  \/ \E o \in Origins, m \in Methods, a \in RequestMethods :
       CORSRequest(o, m, a) /\ OnlyCORS
  \/ CORSMismatch /\ OnlyCORS
  \/ CORSUntrusted /\ OnlyCORS
  \/ CORSPreflight /\ OnlyCORS
  \/ CORSTrusted /\ OnlyCORS
  \/ CORSNext /\ OnlyCORS
  \/ CORSLeave /\ OnlyCORS

(***************************************************************************)
(* The specifications: one stage runs, the others stay as built.           *)
(***************************************************************************)
\* The rate limiter with its sweeper.
Init == InitRateLimit /\ ParkedMetrics /\ ParkedAuth /\ ParkedCORS

Spec == Init /\ [][NextRateLimit]_vars

\* metrics() has published its four variables at zero; no request yet.
InitMetrics == now = 0 /\ ParkedRateLimit /\ ParkedMetrics /\ ParkedAuth
                 /\ ParkedCORS

SpecMetrics == InitMetrics /\ [][NextMetrics]_vars

\* No request has reached authenticate yet.
InitAuth == now = 0 /\ ParkedRateLimit /\ ParkedMetrics /\ ParkedAuth
                 /\ ParkedCORS

SpecAuth == InitAuth /\ [][NextAuth]_vars

\* enableCORS is built with one of the trusted-origins lists; no request yet.
InitCORS ==
  /\ now = 0 /\ ParkedRateLimit /\ ParkedMetrics /\ ParkedAuth
  /\ trustedOrigins \in TrustedLists /\ IdleCORS

SpecCORS == InitCORS /\ [][NextCORS]_vars

(***************************************************************************)
(* The stages share no state: each keeps to its own variables.  SpecStages *)
(* follows requests through any one of the rate limiter, enableCORS and    *)
(* the authenticator with its guards, the two others staying as built.     *)
(***************************************************************************)
InitStages == Init \/ InitCORS \/ InitAuth

NextStages ==
  \/ ParkedAuth /\ ParkedCORS /\ NextRateLimit
  \/ now = 0 /\ ParkedRateLimit /\ ParkedAuth /\ NextCORS
  \/ now = 0 /\ ParkedRateLimit /\ ParkedCORS /\ NextAuth

SpecStages == InitStages /\ [][NextStages]_vars

(***************************************************************************)
(* Scheduling: the clock advances, a runnable goroutine runs, and a        *)
(* goroutine blocked in mu.Lock() gets the mutex if it is free again and   *)
(* again (sync.Mutex hands the lock to waiters that starve).  Requests     *)
(* arrive or not: Request is not fair.                                     *)
(***************************************************************************)
Fairness ==
  /\ WF_rlVars(Tick)
  /\ WF_rlVars(SweeperWake)
  /\ SF_rlVars(SweeperLock)
  /\ WF_rlVars(SweeperSweep)
  /\ \A w \in Workers :
       /\ SF_rlVars(Lock(w))
       /\ WF_rlVars(Check(w))
       /\ WF_rlVars(Exceeded(w))
       /\ WF_rlVars(ServeNext(w))

FairSpec == Spec /\ Fairness

(***************************************************************************)
(* The rate limiter and its sweeper.                                       *)
(***************************************************************************)
\* A request of another goroutine for the same client is under way.
Rival(w) ==
  \E v \in Workers \ {w} : wip[v] = wip[w] /\ wpc[v] \in {"lock", "check"}

\* The checks h made on one entry follow the burst rule: those among the first
\* burst made at the instant of the first are admitted, check burst+1 at that
\* instant is denied, and the check after it, 1/rps or more later, is admitted.
BurstRule(h) ==
  LET B == limiter.burst IN
    /\ \A i \in 1..Len(h) : (i <= B /\ h[i].t = h[1].t) => h[i].ok
    /\ (Len(h) >= B + 1 /\ h[B + 1].t = h[1].t) => ~h[B + 1].ok
    /\ (Len(h) >= B + 2 /\ h[B + 1].t = h[1].t
          /\ h[B + 2].t >= h[1].t + limiter.period) => h[B + 2].ok

\* C1: with the limiter on, a request of a client that has no entry is
\* admitted (unless another request of that client is under way), and the
\* checks made on every entry follow the burst rule: burst immediate requests
\* admitted, the next denied, one more admitted 1/rps later.
C1_BurstThenRefill ==
  /\ [](\A ip \in ClientIPs : BurstRule(hist[ip]))
  /\ \A w \in Workers :
       (wpc[w] = "lock" /\ wip[w] \notin DOMAIN clients)
         ~> (wpc[w] = "next" \/ Rival(w))

\* The sweeper's next pass begins before the clock of the model stops.
SweepDue == spc # "sleep" \/ wakeAt <= MaxTime

\* C2: an entry idle for more than three minutes is deleted by the next sweep
\* (unless a request refreshes it first), and the next request of an evicted
\* client is admitted on a new entry holding the full burst.
C2_IdleEvictedThenFresh ==
  /\ \A ip \in ClientIPs :
       (ip \in DOMAIN clients /\ Idle(clients[ip]) /\ SweepDue)
         ~> (ip \notin DOMAIN clients \/ ~Idle(clients[ip]))
  /\ \A w \in Workers :
       (wpc[w] = "lock" /\ wip[w] \in evicted)
         ~> (wpc[w] = "next" \/ Rival(w))
  /\ [][\A w \in Workers :
         (wpc[w] = "check" /\ wpc'[w] # "check" /\ wip[w] \in evicted)
           => /\ wpc'[w] = "next"
              /\ clients'[wip[w]].limiter.tokens = FullBucket - OneToken]_vars

\* C3: every request that starts an admission check finishes it, admitted or
\* denied; no goroutine waits in mu.Lock() forever.
C3_CheckFinishes ==
  \A w \in Workers : (wpc[w] = "lock") ~> (wpc[w] \in {"next", "exceeded"})

\* C12: with the limiter flag off every request goes straight to the next
\* handler and the stage does no accounting: the registry stays empty, no
\* check is made or recorded, and no request goroutine takes or waits for mu.
C12_DisabledNoAccounting ==
  ~limiter.enabled =>
    /\ clients = << >>
    /\ mu \notin Workers
    /\ \A ip \in ClientIPs : hist[ip] = << >>
    /\ \A w \in Workers : wpc[w] \in {"idle", "next"} /\ wip[w] = NoIP

\* With the flag off, a request is at next.ServeHTTP while the sweeper holds
\* mu, and all the requests of the behaviour have started.
C12_Witness ==
  /\ ~limiter.enabled
  /\ nreq = MaxReq
  /\ mu = Sweeper
  /\ \E w \in Workers : wpc[w] = "next"

\* C13: a request goroutine holds mu only inside the admission check: when
\* it is at next.ServeHTTP or at the rate-limit-exceeded response it has
\* released the mutex.
C13_LockNotHeldDownstream ==
  \A w \in Workers :
    /\ wpc[w] \in {"next", "exceeded"} => mu # w
    /\ mu = w => wpc[w] = "check"

\* One request is being answered 429 and another is at next.ServeHTTP while
\* nobody holds the mutex.
C13_Witness ==
  \E w, v \in Workers :
    /\ wpc[w] = "exceeded"
    /\ wpc[v] = "next"
    /\ mu = Unlocked

\* The tokens, in units, that the bucket of ip holds at the current time in
\* the registry c: the full burst when ip has no entry yet.
TokensIn(c, ip) ==
  IF ip \in DOMAIN c THEN Advance(c[ip].limiter, now) ELSE FullBucket

\* The goroutine w completes its admission check in this step.
Checks(w) == wpc[w] = "check" /\ wpc'[w] # "check"

\* C14: every admission check sets the client's lastSeen to the current time,
\* admitted or denied; a denied check takes no token from the bucket and an
\* admitted check takes exactly one.
C14_CheckStampsAndCharges ==
  [][\A w \in Workers :
       Checks(w) =>
         /\ wip[w] \in DOMAIN clients'
         /\ clients'[wip[w]].lastSeen = now
         /\ wpc'[w] \in {"next", "exceeded"}
         /\ wpc'[w] = "exceeded" =>
              TokensIn(clients', wip[w]) = TokensIn(clients, wip[w])
         /\ wpc'[w] = "next" =>
              TokensIn(clients', wip[w]) = TokensIn(clients, wip[w]) - OneToken
    ]_vars

\* A check made after the entry's first was denied and stamped the entry.
C14_Witness ==
  \E ip \in DOMAIN clients :
    LET h == hist[ip] IN
      /\ Len(h) >= 2
      /\ ~h[Len(h)].ok
      /\ h[Len(h)].t > h[1].t
      /\ clients[ip].lastSeen = h[Len(h)].t

\* The sweeper completes a pass in this step.
Sweeps == spc = "sweep" /\ spc' = "sleep"

\* C17: a sweep pass removes exactly the idle entries: an entry last seen
\* within the last three minutes is still in the registry afterwards, with its
\* bucket and lastSeen unchanged; an entry last seen longer ago is gone; and
\* the pass adds no entry.
C17_SweepRemovesExactlyIdle ==
  [][Sweeps =>
       /\ DOMAIN clients' \subseteq DOMAIN clients
       /\ \A ip \in DOMAIN clients :
            IF now - clients[ip].lastSeen <= IdleThreshold
            THEN ip \in DOMAIN clients' /\ clients'[ip] = clients[ip]
            ELSE ip \notin DOMAIN clients'
    ]_vars

\* The pass that just ended deleted one entry and kept another that was last
\* seen exactly three minutes before.
C17_Witness ==
  /\ spc = "sleep"
  /\ mu = Sweeper
  /\ wakeAt = now + SweepInterval
  /\ evicted # {}
  /\ \E ip \in DOMAIN clients : now - clients[ip].lastSeen = IdleThreshold

\* C18: an admission check for a client keeps the client's existing entry
\* (the bucket goes on from the tokens it held), adds no entry but the
\* client's own, and leaves every other client's entry as it was; a request
\* is denied only when its own client's bucket holds less than one token.
C18_CheckTouchesOwnEntryOnly ==
  [][\A w \in Workers :
       Checks(w) =>
         LET ip == wip[w] IN
           /\ DOMAIN clients' = DOMAIN clients \cup {ip}
           /\ \A i \in DOMAIN clients \ {ip} : clients'[i] = clients[i]
           /\ ip \in DOMAIN clients =>
                TokensIn(clients', ip) \in
                  {TokensIn(clients, ip), TokensIn(clients, ip) - OneToken}
           /\ wpc'[w] = "exceeded" =>
                (ip \in DOMAIN clients /\ TokensIn(clients, ip) < OneToken)
    ]_vars

\* At one instant a request of one client is denied on its exhausted bucket
\* and a request of another client is admitted.
C18_Witness ==
  \E w, v \in Workers :
    /\ wpc[w] = "exceeded"
    /\ wpc[v] = "next"
    /\ wip[w] # wip[v]
    /\ ~hist[wip[w]][Len(hist[wip[w]])].ok
    /\ hist[wip[v]][Len(hist[wip[v]])].t = hist[wip[w]][Len(hist[wip[w]])].t

(***************************************************************************)
(* The metrics counters and the recovery stage.                            *)
(***************************************************************************)
\* Every request that was started has left the chain.
AllCompleted == \A w \in Workers : mpc[w] = "idle"

RECURSIVE SumOver(_, _)
SumOver(m, keys) ==
  IF keys = {} THEN 0
  ELSE LET k == CHOOSE x \in keys : TRUE IN m[k] + SumOver(m, keys \ {k})

\* The sum of the per-status-code counters.
SumByStatus ==
  SumOver(totalResponsesSentByStatus, DOMAIN totalResponsesSentByStatus)

\* C4 as stated: once the N requests started have all completed,
\* responses-sent = requests-received = N and the per-status counters sum to N.
C4_AllCounted ==
  AllCompleted =>
    /\ totalRequestsReceived = mreq
    /\ totalResponsesSent = mreq
    /\ SumByStatus = mreq

\* C4 amended: once the N requests started have all completed,
\* requests-received = N, and responses-sent and the sum of the per-status
\* counters both equal the number of requests whose downstream handler
\* returned without panicking.
C4_ReturnedCounted ==
  AllCompleted =>
    /\ totalRequestsReceived = mreq
    /\ totalResponsesSent = mreq - panics
    /\ SumByStatus = mreq - panics

\* Three requests have completed, two of them concurrently counted under
\* different status codes, one after a panic.
C4_Witness ==
  /\ AllCompleted
  /\ mreq = MaxReq
  /\ panics = 1
  /\ totalResponsesSent = mreq - 1
  /\ Cardinality(DOMAIN totalResponsesSentByStatus) = 2

\* The request of w ended in a recovered panic.
Panicked(w) == mpc[w] = "idle" /\ fate[w] = "panicked"

\* The request of w ended with its handler returning.
Returned(w) == mpc[w] = "idle" /\ fate[w] = "returned"

\* The response of w is the 500 of the recovery stage, with Connection: close.
ClosedWith500(w) ==
  rw[w].status = StatusInternalServerError /\ rw[w].closeSent

\* The response of w is the downstream handler's own.
ServedNormally(w) ==
  /\ ~rw[w].close
  /\ ~rw[w].closeSent
  /\ rw[w].status = (IF mw[w].headerWritten THEN mw[w].statusCode ELSE 0)

\* A panicking request ends in the recovery stage: its goroutine goes on
\* unwinding or returns from the handler of recoverPanic.
PanicStopsAtRecovery ==
  \A w \in Workers :
    mpc[w] = "panicking" => mpc'[w] \in {"panicking", "idle"}

\* C5 as stated: a request whose handler panicked gets the 500 response with
\* Connection: close.
C5_PanicGets500 == \A w \in Workers : Panicked(w) => ClosedWith500(w)

\* C5 amended: a request whose handler panicked before committing any status
\* or body gets the 500 response with Connection: close; every panic ends in
\* the recovery stage; and every request whose handler returns, also after
\* panics of other requests, gets its handler's own response.
C5_PanicContained ==
  /\ [](\A w \in Workers :
          (Panicked(w) /\ ~mw[w].headerWritten) => ClosedWith500(w))
  /\ [](\A w \in Workers : Returned(w) => ServedNormally(w))
  /\ [][PanicStopsAtRecovery]_vars

\* One request ended in a recovered panic with the 500 response, and a
\* request that arrived after it was served with its handler's 404.
C5_Witness ==
  \E w, v \in Workers :
    /\ Panicked(w) /\ ~mw[w].headerWritten /\ ClosedWith500(w)
    /\ Returned(v) /\ began[v] > 0 /\ rw[v].status = 404

\* Every call on the writer of w's request so far went through the wrapper:
\* the recovery stage, which writes to the wrapped writer, has not run.
ThroughWrapper(w) == ~Panicked(w)

\* C15: the wrapper records the first-committed status: the status of the
\* first WriteHeader when it comes before any Write, 200 when a Write came
\* first or nothing was written; a WriteHeader after the first commit never
\* changes the record.
C15_FirstCommittedStatus ==
  /\ [](\A w \in Workers :
          ThroughWrapper(w) =>
            /\ mw[w].headerWritten <=> rw[w].status # 0
            /\ mw[w].statusCode =
                 (IF rw[w].status = 0 THEN StatusOK ELSE rw[w].status))
  /\ [][\A w \in Workers :
          (mpc[w] = "handler" /\ mw[w].headerWritten)
            => mw'[w].statusCode = mw[w].statusCode]_vars

\* Two handlers have made two writer calls each: one committed 404 first, the
\* other committed 200, and both records stayed.
C15_Witness ==
  \E w, v \in Workers :
    /\ mpc[w] = "handler" /\ calls[w] = 2
    /\ rw[w].status = 404 /\ mw[w].statusCode = 404
    /\ mpc[v] = "handler" /\ calls[v] = 2
    /\ rw[v].status = StatusOK /\ mw[v].statusCode = StatusOK

\* Requests counted as received whose downstream handler has not returned to
\* the point where the response is counted (line 252), and has not panicked.
InFlight == Cardinality({w \in Workers : mpc[w] \in {"handler", "sent"}})

\* Requests whose downstream handler panicked: those still unwinding and
\* those already recovered.
DownstreamPanicked ==
  panics + Cardinality({w \in Workers : mpc[w] = "panicking"})

\* Requests past line 252 whose per-status counter is not yet incremented.
AwaitingStatusCount == Cardinality({w \in Workers : mpc[w] = "byStatus"})

\* C20: responses-sent never exceeds requests-received, and the difference is
\* the number of requests in flight in the metrics stage plus the number
\* whose downstream handler panicked; a panicked request is never counted as
\* sent nor under any status code, although the recovery stage answers 500.
C20_SentLagsReceived ==
  /\ totalResponsesSent <= totalRequestsReceived
  /\ totalRequestsReceived - totalResponsesSent = InFlight + DownstreamPanicked
  /\ SumByStatus = totalResponsesSent - AwaitingStatusCount
  /\ \A w \in Workers :
       (Panicked(w) /\ mreq = 1) =>
         /\ totalRequestsReceived = 1
         /\ totalResponsesSent = 0
         /\ totalResponsesSentByStatus = << >>

\* One request was counted as sent, one was answered 500 by the recovery
\* stage after a panic, and one is in its handler.
C20_Witness ==
  /\ totalRequestsReceived = 3
  /\ totalResponsesSent = 1
  /\ panics = 1
  /\ \E w, v \in Workers :
       /\ mpc[w] = "handler"
       /\ Panicked(v) /\ rw[v].status = StatusInternalServerError

(***************************************************************************)
(* The authenticator and the authorization guards.                         *)
(***************************************************************************)
\* A request is in the chain and authenticate has run for it.
Authenticated == route # << >> /\ Stage # "authenticate"

\* The chain has returned for the request.
Over == route # << >> /\ stack = << >>

\* C6: an anonymous user on a route wrapped by requirePermission gets the
\* authentication-required response, and no other: GetAllForUser is never
\* called and the wrapped handler never runs.
C6_AnonymousNeedsAuthentication ==
  (route = PermissionRoute /\ IsAnonymous(ctxUser)) =>
    /\ permCalls = 0
    /\ served = 0
    /\ resp \in {"none", "authenticationRequired"}
    /\ Over => resp = "authenticationRequired"

C6_Witness ==
  /\ Over
  /\ route = PermissionRoute
  /\ IsAnonymous(ctxUser)
  /\ resp = "authenticationRequired"

\* C7: for an authenticated, activated user on the permission route,
\* GetAllForUser is called, and when it returns a permission set the wrapped
\* handler runs if and only if the route's code is in the set; otherwise the
\* response is not-permitted and the handler does not run.
C7_PermissionDecides ==
  (Over /\ route = PermissionRoute /\ tokenResult = "found"
     /\ ctxUser.activated) =>
    /\ permCalls = 1
    /\ ~permErr =>
         /\ served = 1 <=> code \in permissions
         /\ code \in permissions => resp = "none"
         /\ code \notin permissions => (resp = "notPermitted" /\ served = 0)

\* A user holding another permission than the route's is refused.
C7_Witness ==
  /\ Over
  /\ route = PermissionRoute
  /\ ctxUser.activated
  /\ permissions # {}
  /\ code \notin permissions
  /\ resp = "notPermitted"

\* C8: a request without Authorization header has the anonymous user in its
\* context, is passed to the next handler by authenticate, and GetForToken is
\* never called for it.
C8_NoHeaderIsAnonymous ==
  (route # << >> /\ header = << >>) =>
    /\ tokenCalls = 0
    /\ Authenticated =>
         /\ ctxUser = AnonymousUser
         /\ authNext = 1
         /\ resp \notin {"invalidAuthenticationToken", "serverError"}

C8_Witness ==
  /\ Over
  /\ header = << >>
  /\ ctxUser = AnonymousUser
  /\ authNext = 1
  /\ served = 1

\* A header that reads Bearer, one space, and a token of 26 bytes that holds
\* no space.
WellFormed(h) ==
  /\ Len(h) >= 3
  /\ h[1] = "Bearer"
  /\ h[2] = SP
  /\ \A i \in 3..Len(h) : h[i] # SP
  /\ StrLen(SubSeq(h, 3, Len(h))) = TokenLen

\* C9: GetForToken is called only for a header that is Bearer, one space and a
\* token of valid shape; every other non-empty header gets the invalid-token
\* response with no call of GetForToken and no call of the next handler.
C9_LookupOnlyWellFormed ==
  /\ tokenCalls > 0 => WellFormed(header)
  /\ (Authenticated /\ header # << >> /\ ~WellFormed(header)) =>
       /\ resp = "invalidAuthenticationToken"
       /\ tokenCalls = 0
       /\ authNext = 0
       /\ served = 0
       /\ stack = << >>

\* A token of the wrong size behind the right scheme is turned away.
C9_Witness ==
  /\ Over
  /\ header = <<"Bearer", SP, "s20">>
  /\ resp = "invalidAuthenticationToken"
  /\ tokenCalls = 0

\* C10: for a well-formed bearer token GetForToken is called once and its
\* result decides: not found gives the invalid-token response, another error
\* the 500 server-error response, both without the next handler and without a
\* user in the context; success puts the user in the context and calls next.
C10_LookupDecides ==
  (Authenticated /\ WellFormed(header)) =>
    /\ tokenCalls = 1
    /\ tokenResult \in {"notFound", "error", "found"}
    /\ tokenResult = "notFound" =>
         /\ resp = "invalidAuthenticationToken"
         /\ authNext = 0 /\ served = 0 /\ ctxUser = NoUser /\ stack = << >>
    /\ tokenResult = "error" =>
         /\ resp = "serverError" /\ Status(resp) = 500
         /\ authNext = 0 /\ served = 0 /\ ctxUser = NoUser /\ stack = << >>
    /\ tokenResult = "found" =>
         /\ ctxUser \in Users
         /\ authNext = 1

\* The token store failed for a well-formed token: a 500.
C10_Witness ==
  /\ Over
  /\ WellFormed(header)
  /\ tokenResult = "error"
  /\ resp = "serverError"

(***************************************************************************)
(* enableCORS.                                                             *)
(***************************************************************************)
\* The request's Origin is an entry of the trusted-origins list.
IsTrusted ==
  \E i \in 1..Len(trustedOrigins) : trustedOrigins[i] = origin

\* The response carries no Access-Control-* header.
NoAccessControl == allowOrigin = "" /\ ~allowMethods /\ ~allowHeaders

\* C11: for an OPTIONS request with a non-empty Access-Control-Request-Method
\* header, a trusted Origin gets status 200 with Allow-Origin, Allow-Methods
\* and Allow-Headers set and the next handler is never called; an absent or
\* untrusted Origin gets no Access-Control-* header and the next handler is
\* called.
C11_PreflightAnswered ==
  (cpc # "idle" /\ Preflight) =>
    /\ (origin # NoOrigin /\ IsTrusted) =>
         /\ corsNext = 0
         /\ cpc = "done" =>
              /\ corsStatus = StatusOK
              /\ allowOrigin = origin
              /\ allowMethods
              /\ allowHeaders
    /\ (origin = NoOrigin \/ ~IsTrusted) =>
         /\ NoAccessControl
         /\ corsStatus = 0
         /\ cpc = "done" => corsNext = 1

\* A preflight from the second trusted origin was answered by enableCORS.
C11_Witness ==
  /\ cpc = "done"
  /\ Preflight
  /\ Len(trustedOrigins) = 2
  /\ origin = trustedOrigins[2]
  /\ origin # trustedOrigins[1]
  /\ corsStatus = StatusOK
  /\ corsNext = 0

(***************************************************************************)
(* The guards and the user's activation.                                   *)
(***************************************************************************)
\* The request's route is wrapped by requireActivatedUser, directly or through
\* requirePermission.
NeedsActivation ==
  route \in {authenticate(requireActivatedUser(Handler)), PermissionRoute}

\* The request's user came from the token store and is not activated.
InactiveUser == tokenResult = "found" /\ ctxUser \in Users /\ ~ctxUser.activated

\* C16: an authenticated user who is not activated, on a route behind
\* requireActivatedUser or requirePermission, gets the inactive-account
\* response and no other: the wrapped handler never runs and GetAllForUser is
\* never called.
C16_InactiveUserRefused ==
  (NeedsActivation /\ InactiveUser) =>
    /\ permCalls = 0
    /\ served = 0
    /\ resp \in {"none", "inactiveAccount"}
    /\ Over => (resp = "inactiveAccount" /\ Status(resp) = 403)

\* An inactive user was refused on the permission route.
C16_Witness ==
  /\ Over
  /\ route = PermissionRoute
  /\ InactiveUser
  /\ resp = "inactiveAccount"
  /\ permCalls = 0

(***************************************************************************)
(* Every stage either answers or calls next.                               *)
(***************************************************************************)
\* The rate limiter: a goroutine returns from the handler only from the 429
\* response or from next.ServeHTTP, never goes from one to the other, and
\* calls next at most once.
RateLimitAnswersOrPasses ==
  \A w \in Workers :
    /\ (wpc[w] # "idle" /\ wpc'[w] = "idle") => wpc[w] \in {"next", "exceeded"}
    /\ wpc[w] = "exceeded" => wpc'[w] \in {"exceeded", "idle"}
    /\ wpc[w] = "next" => wpc'[w] \in {"next", "idle"}
    /\ wpc[w] \in {"lock", "check"} => wpc'[w] # "idle"

\* enableCORS: when the handler has returned it wrote the 200 of the
\* preflight and did not call next, or called next once and wrote no status.
CORSAnswersOrPasses ==
  /\ corsNext <= 1
  /\ corsStatus # 0 => corsNext = 0
  /\ cpc = "done" =>
       \/ corsStatus = StatusOK /\ corsNext = 0
       \/ corsStatus = 0 /\ corsNext = 1

\* authenticate and the three guards: the stage at the head of the chain
\* either writes the first response of the request and ends the chain, or
\* hands the request to the stage behind it and writes nothing.
GuardAnswersOrPasses ==
  Stage \notin {"none", "handler"} =>
    \/ /\ resp = "none" /\ resp' # "none" /\ Status(resp') # 0
       /\ stack' = << >>
       /\ served' = served
       /\ authNext' = authNext
    \/ /\ resp = "none" /\ resp' = "none"
       /\ stack' = Tail(stack)
       /\ served' = served
       /\ authNext' = authNext + (IF Stage = "authenticate" THEN 1 ELSE 0)

\* The chain behind authenticate: the final handler runs at most once, and
\* only when no stage has answered.
ChainAnswersOrServes ==
  /\ served <= 1
  /\ authNext <= 1
  /\ served = 1 => (resp = "none" /\ authNext = 1)
  /\ Over => (resp # "none" <=> served = 0)

\* C19: for every request and every stage (rate limit, CORS, authenticate,
\* the three guards), when the stage returns it has either written its own
\* response without calling the next handler, or called the next handler
\* exactly once without writing a status.
C19_AnswerOrNextOnce ==
  /\ [](CORSAnswersOrPasses /\ ChainAnswersOrServes)
  /\ [][RateLimitAnswersOrPasses /\ GuardAnswersOrPasses]_vars

\* A request passed authenticate and the three guards of the permission
\* route, each calling next once, and was served.
C19_Witness ==
  /\ Over
  /\ route = PermissionRoute
  /\ authNext = 1
  /\ permCalls = 1
  /\ served = 1
  /\ resp = "none"

====
